---- MODULE Spec2Model ----
(***************************************************************************)
(* Filesystem-backed image store (glance/store/filesystem.py).             *)
(*                                                                         *)
(* Text is modelled as sequences of one-character strings, so that the    *)
(* parsing of a datadir entry (split on ":", strip, isdigit, int) and the  *)
(* formatting and parsing of a location URI are computed, not assumed.     *)
(* A file is a sequence of bytes; byte 0 is what a hole reads as.          *)
(***************************************************************************)
EXTENDS Integers, Sequences, FiniteSets, TLC

VARIABLES
    filesystem_store_datadir, \* CONF.filesystem_store_datadir: list of entries
    self,                     \* the Store instance's attributes (name -> value)
    conf_result,              \* how the last configure_add call ended
    fs_dirs,                  \* paths at which a directory exists
    fs_files,                 \* path -> inode, for the files that exist
    inodes,                   \* inode -> data and history of a file in use
    total_size,               \* path -> size of the file system holding it
    probe_broken,             \* paths whose stat/du command fails
    chosen,                   \* how the last _find_best_datadir call ended
    proc,                     \* the call each caller is in, or its result
    configure_calls,          \* how many times configure_add has run
    history,                  \* path -> what delete and add have done to it
    beaten                    \* paths another process created first, in the
                              \* last configure_add

vars == <<filesystem_store_datadir, self, conf_result, fs_dirs, fs_files,
          inodes, total_size, probe_broken, chosen, proc, configure_calls,
          history, beaten>>

(***************************************************************************)
(* Bounds                                                                  *)
(***************************************************************************)
MaxEntries == 2      \* longest configured entry list (configuration claims)
MaxConfigure == 2    \* configure_add runs at construction and once more
MaxFree == 2         \* largest file system size and largest declared size
MaxLen == 3          \* longest input stream
CHUNKSIZE == 2       \* ChunkedFile.CHUNKSIZE, scaled down as the tests do

(***************************************************************************)
(* Text helpers (Python str methods)                                       *)
(***************************************************************************)
Digits == {"0", "1", "2"}

DigitVal(c) == CASE c = "0" -> 0 [] c = "1" -> 1 [] c = "2" -> 2

\* s[n:]
Drop(s, n) == IF n >= Len(s) THEN <<>> ELSE SubSeq(s, n + 1, Len(s))

\* s[:n]
Take(s, n) == IF n >= Len(s) THEN s ELSE SubSeq(s, 1, n)

RECURSIVE LStrip(_)
LStrip(s) == IF s # <<>> /\ Head(s) = " " THEN LStrip(Tail(s)) ELSE s

RECURSIVE RStrip(_)
RStrip(s) ==
    IF s # <<>> /\ s[Len(s)] = " " THEN RStrip(Take(s, Len(s) - 1)) ELSE s

\* str.strip()
Strip(s) == RStrip(LStrip(s))

\* position of the first sep in s, 0 when there is none
RECURSIVE Find(_, _, _)
Find(s, sep, i) ==
    IF i > Len(s) THEN 0
    ELSE IF s[i] = sep THEN i
    ELSE Find(s, sep, i + 1)

\* str.split(sep): always at least one part
RECURSIVE Split(_, _)
Split(s, sep) ==
    LET i == Find(s, sep, 1)
    IN  IF i = 0 THEN <<s>>
        ELSE <<Take(s, i - 1)>> \o Split(Drop(s, i), sep)

\* str.isdigit(): non-empty and digits only
IsDigit(s) == s # <<>> /\ \A i \in 1..Len(s) : s[i] \in Digits

\* int(str) of a digit string
RECURSIVE ToInt(_)
ToInt(s) ==
    IF s = <<>> THEN 0
    ELSE 10 * ToInt(Take(s, Len(s) - 1)) + DigitVal(s[Len(s)])

\* sorted(S, reverse=True) of a set of integers
RECURSIVE SortedDesc(_)
SortedDesc(S) ==
    IF S = {} THEN <<>>
    ELSE LET m == CHOOSE x \in S : \A y \in S : y <= x
         IN  <<m>> \o SortedDesc(S \ {m})

\* the elements of a sequence
Range(s) == {s[i] : i \in 1..Len(s)}

\* the orders in which a set can be enumerated
Orders(S) ==
    {o \in [1..Cardinality(S) -> S] : \A e \in S : \E i \in DOMAIN o : o[i] = e}

(***************************************************************************)
(* The Store instance                                                      *)
(***************************************************************************)
HasAttr(obj, name) == name \in DOMAIN obj

SetAttr(obj, name, value) ==
    [n \in DOMAIN obj \cup {name} |-> IF n = name THEN value ELSE obj[n]]

\* dict.setdefault(key, []).append(value)
AppendTo(map, key, value) ==
    [k \in DOMAIN map \cup {key} |->
        IF k = key
        THEN (IF key \in DOMAIN map THEN map[key] ELSE <<>>) \o <<value>>
        ELSE map[k]]

\* an empty dict
EmptyMap == [k \in {} |-> <<>>]

(***************************************************************************)
(* configure_add: the loop over the entries of a multi-entry list.         *)
(* Returns the priority map and the set of paths built so far, and whether *)
(* the loop was left by the raise in the priority check.                   *)
(***************************************************************************)
RECURSIVE ParseEntries(_, _, _)
ParseEntries(entries, map, paths) ==
    IF entries = <<>> THEN [raised |-> FALSE, map |-> map, paths |-> paths]
    ELSE
        LET datadir == Head(entries)
            parts == [i \in DOMAIN Split(datadir, ":") |->
                         Strip(Split(datadir, ":")[i])]
            datadir_path == parts[1]
            given == Len(parts) = 2 /\ parts[2] # <<>>
        IN  IF given /\ ~IsDigit(parts[2])
            THEN [raised |-> TRUE, map |-> map, paths |-> paths]
            ELSE
                LET priority == IF given THEN ToInt(parts[2]) ELSE 0
                IN  IF datadir_path # <<>>
                    THEN ParseEntries(Tail(entries),
                                      AppendTo(map, priority, datadir_path),
                                      paths \cup {datadir_path})
                    ELSE ParseEntries(Tail(entries), map, paths)

(***************************************************************************)
(* _create_image_directories over one enumeration order of the path set.   *)
(* outcome[d] is what os.makedirs(d) does when d is missing: "created",    *)
(* "raced" (it fails, another process has created d meanwhile) or "failed".*)
(* The empty path can never be created.                                    *)
(***************************************************************************)
MakedirsOutcomes == {"created", "raced", "failed"}

\* the outcomes when no other process creates directories
LoneOutcomes == {"created", "failed"}

\* os.makedirs(datadir) raises IOError or OSError
MakedirsRaises(datadir, outcome) ==
    datadir = <<>> \/ outcome[datadir] # "created"

\* os.path.exists(datadir) after the os.makedirs call
ExistsAfter(datadir, outcome) ==
    datadir # <<>> /\ outcome[datadir] # "failed"

\* every error of os.makedirs ends the configuration: the mutant of GivesUp
GivesUp_OnAnyError(raises, exists_now) == raises

\* the except clause: BadStoreConfiguration unless the path exists now
GivesUp(raises, exists_now) == raises /\ ~exists_now

RECURSIVE CreateImageDirectories(_, _, _)
CreateImageDirectories(order, outcome, dirs) ==
    IF order = <<>> THEN [raised |-> FALSE, dirs |-> dirs]
    ELSE
        LET datadir == Head(order)
            now == IF ExistsAfter(datadir, outcome)
                   THEN dirs \cup {datadir} ELSE dirs
        IN  IF datadir \in dirs
            THEN CreateImageDirectories(Tail(order), outcome, dirs)
            ELSE IF GivesUp(MakedirsRaises(datadir, outcome),
                            ExistsAfter(datadir, outcome))
            THEN [raised |-> TRUE, dirs |-> now]
            ELSE CreateImageDirectories(Tail(order), outcome, now)

(***************************************************************************)
(* configure_add                                                           *)
(***************************************************************************)
\* an empty list is let through: the mutant of ConfigMissing
ConfigMissing_Never(conf) == FALSE

\* "not CONF.filesystem_store_datadir"
ConfigMissing(conf) == conf = <<>>

\* "len(CONF.filesystem_store_datadir) == 1"
SingleEntry(conf) == Len(conf) = 1

\* the last two statements: priority_list, then _create_image_directories
FinishConfigure(obj, directory_paths, outcomes) ==
    IF ~HasAttr(obj, "priority_data_map")
    THEN /\ self' = obj
         /\ conf_result' = "AttributeError"
         /\ beaten' = {}
         /\ UNCHANGED fs_dirs
    ELSE \E order \in Orders(directory_paths),
            outcome \in [directory_paths -> outcomes] :
            LET made == CreateImageDirectories(order, outcome, fs_dirs)
            IN  /\ self' = SetAttr(obj, "priority_list",
                                   SortedDesc(DOMAIN obj.priority_data_map))
                /\ fs_dirs' = made.dirs
                /\ beaten' = {d \in made.dirs \ fs_dirs :
                                 MakedirsRaises(d, outcome)}
                /\ conf_result' = IF made.raised
                                  THEN "BadStoreConfiguration" ELSE "ok"

Idle == \A p \in DOMAIN proc : proc[p].pc = "idle"

ConfigureAdd(conf, outcomes) ==
    /\ Idle
    /\ configure_calls < MaxConfigure
    /\ configure_calls' = configure_calls + 1
    /\ filesystem_store_datadir' = conf
    /\ UNCHANGED <<fs_files, inodes, total_size, probe_broken, chosen, proc,
                   history>>
    /\ IF ConfigMissing(conf)
       THEN /\ conf_result' = "BadStoreConfiguration"
            /\ beaten' = {}
            /\ UNCHANGED <<self, fs_dirs>>
       ELSE IF SingleEntry(conf)
       THEN FinishConfigure(
                SetAttr(SetAttr(self, "multiple_datadirs", FALSE),
                        "datadir", conf[1]),
                {conf[1]}, outcomes)
       ELSE LET parsed == ParseEntries(conf, EmptyMap, {})
                obj == SetAttr(SetAttr(self, "multiple_datadirs", TRUE),
                               "priority_data_map", parsed.map)
            IN  IF parsed.raised
                THEN \* "reason" is not bound on this path
                     /\ self' = obj
                     /\ conf_result' = "UnboundLocalError"
                     /\ beaten' = {}
                     /\ UNCHANGED fs_dirs
                ELSE FinishConfigure(obj, parsed.paths, outcomes)

(***************************************************************************)
(* _get_capacity_info and _find_best_datadir                               *)
(***************************************************************************)
\* os.path.join(datadir, str(image_id))
JoinPath(dir, image_id) == dir \o <<"/">> \o image_id

\* the files below a directory
FilesUnder(dir, files) ==
    {f \in DOMAIN files :
        Len(f) > Len(dir) + 1 /\ Take(f, Len(dir) + 1) = dir \o <<"/">>}

\* "du -sb --apparent-size": the bytes of the files below the directory
RECURSIVE TotalAllocated(_, _)
TotalAllocated(fileset, files) ==
    IF fileset = {} THEN 0
    ELSE LET f == CHOOSE x \in fileset : TRUE
         IN  Len(inodes[files[f]].data) + TotalAllocated(fileset \ {f}, files)

\* a value for "no answer", of the type of an answer
NoCapacity == [failed |-> TRUE, free |-> 0]

\* a probe that fails counts as no free space: the mutant of GetCapacityInfo
GetCapacityInfo_Zero(mount_point) ==
    IF mount_point \notin fs_dirs \/ mount_point \in probe_broken
        \/ mount_point \notin DOMAIN total_size
    THEN [failed |-> FALSE, free |-> 0]
    ELSE LET total_allocated ==
                 TotalAllocated(FilesUnder(mount_point, fs_files), fs_files)
             left == total_size[mount_point] - total_allocated
         IN  [failed |-> FALSE, free |-> IF left > 0 THEN left ELSE 0]

\* "stat -f" gives the size of the file system, "du" what is allocated; either
\* command fails on a missing directory or a broken mount
GetCapacityInfo(mount_point) ==
    IF mount_point \notin fs_dirs \/ mount_point \in probe_broken
        \/ mount_point \notin DOMAIN total_size
    THEN NoCapacity
    ELSE LET total_allocated ==
                 TotalAllocated(FilesUnder(mount_point, fs_files), fs_files)
             left == total_size[mount_point] - total_allocated
         IN  [failed |-> FALSE, free |-> IF left > 0 THEN left ELSE 0]

\* a directory with as much free space displaces the one recorded: the
\* mutant of Qualifies
Qualifies_Last(free_space, image_size, max_free_space) ==
    free_space >= image_size /\ free_space >= max_free_space

\* "free_space >= image_size and free_space > max_free_space"
Qualifies(free_space, image_size, max_free_space) ==
    free_space >= image_size /\ free_space > max_free_space

\* the inner loop: the directories of one priority, in list order
RECURSIVE ScanTier(_, _, _)
ScanTier(datadirs, image_size, acc) ==
    IF datadirs = <<>> THEN acc
    ELSE
        LET datadir == Head(datadirs)
            info == GetCapacityInfo(datadir)
            seen == [acc EXCEPT !.probed = @ \o <<datadir>>]
        IN  IF info.failed THEN [seen EXCEPT !.status = "ProbeError"]
            ELSE IF Qualifies(info.free, image_size, acc.max_free_space)
            THEN ScanTier(Tail(datadirs), image_size,
                          [seen EXCEPT !.max_free_space = info.free,
                                       !.best_datadir = datadir,
                                       !.found = TRUE])
            ELSE ScanTier(Tail(datadirs), image_size, seen)

\* the outer loop: priorities in priority_list order, with its else clause
RECURSIVE ScanPriorities(_, _, _, _)
ScanPriorities(priority_list, priority_data_map, image_size, acc) ==
    IF priority_list = <<>> THEN [acc EXCEPT !.status = "StorageFull"]
    ELSE
        LET priority == Head(priority_list)
        IN  IF priority \notin DOMAIN priority_data_map
            THEN \* .get(priority) is None, which cannot be iterated
                 [acc EXCEPT !.status = "TypeError"]
            ELSE LET tier == ScanTier(priority_data_map[priority],
                                      image_size, acc)
                 IN  IF tier.status # "scanning" THEN tier
                     ELSE IF tier.found THEN [tier EXCEPT !.status = "ok"]
                     ELSE ScanPriorities(Tail(priority_list),
                                         priority_data_map, image_size, tier)

\* a single-mode store never scans: the mutant of SingleMode
SingleMode_Never(obj) == FALSE

\* "not self.multiple_datadirs"
SingleMode(obj) == ~obj.multiple_datadirs

\* the result carries what the call returned or raised and what it probed
FindBestDatadir(obj, image_size) ==
    LET start == [status |-> "scanning", best_datadir |-> <<>>,
                  found |-> FALSE, max_free_space |-> 0, probed |-> <<>>]
    IN  IF ~HasAttr(obj, "multiple_datadirs")
        THEN [start EXCEPT !.status = "AttributeError"]
        ELSE IF SingleMode(obj)
        THEN [start EXCEPT !.status = "ok", !.best_datadir = obj.datadir,
                           !.found = TRUE]
        ELSE IF ~HasAttr(obj, "priority_list")
        THEN [start EXCEPT !.status = "AttributeError"]
        ELSE ScanPriorities(obj.priority_list, obj.priority_data_map,
                            image_size, start)

ImageSizes == 0..MaxFree

\* one call of _find_best_datadir
Choose(image_size) ==
    /\ chosen' = FindBestDatadir(self, image_size)
                     @@ [image_size |-> image_size]
    /\ UNCHANGED <<filesystem_store_datadir, self, conf_result, beaten, fs_dirs,
                   fs_files, inodes, total_size, probe_broken, proc,
                   configure_calls,
                   history>>

(***************************************************************************)
(* Files. A path names an inode; a handle keeps its inode after the path   *)
(* is unlinked. An inode records its data, whether an add has completed on *)
(* it and how many times it has been opened for writing.                   *)
(***************************************************************************)
\* a path that was deleted still counts: the mutant of Exists
Exists_Stale(path) ==
    path \in DOMAIN fs_files \/ path \in fs_dirs \/ path \in DOMAIN history

\* no path is ever found: the second mutant of Exists
Exists_Never(path) == FALSE

\* os.path.exists
Exists(path) == path \in DOMAIN fs_files \/ path \in fs_dirs

\* the path stays: the mutant of Unlink
Unlink_Keeps(files, path) == files

\* os.unlink of an existing file
Unlink(files, path) == [f \in DOMAIN files \ {path} |-> files[f]]

\* inodes are kept while a path or a handle refers to them; what is written
\* to an inode that no path names and no reader holds can never be read, so
\* its data is not kept
Linked(files, j) == \E f \in DOMAIN files : files[f] = j

HeldBy(procs, j, pcs) ==
    \E q \in DOMAIN procs : procs[q].pc \in pcs /\ procs[q].inode = j

Collect(nodes, files, procs) ==
    [i \in {j \in DOMAIN nodes :
               Linked(files, j) \/ HeldBy(procs, j, {"write", "reading"})} |->
        IF Linked(files, i) \/ HeldBy(procs, i, {"reading"})
        THEN nodes[i]
        ELSE [nodes[i] EXCEPT !.data = <<>>]]

\* the call of caller p ends with success in this step
Completes(procs, p, op) ==
    /\ proc[p].pc # "done"
    /\ procs[p].pc = "done"
    /\ procs[p].op = op
    /\ procs[p].status = "ok"

\* what has happened to a path: a successful delete makes it "deleted", the
\* open of an add that creates it again makes it "readded", and a successful
\* add records the stream it stored
Past(f) ==
    IF f \in DOMAIN history THEN history[f]
    ELSE [state |-> "new", stored |-> FALSE, payload |-> <<>>]

Record(files, procs) ==
    LET deleted == {procs[p].filepath :
                       p \in {q \in DOMAIN procs : Completes(procs, q, "delete")}}
        added == {q \in DOMAIN procs : Completes(procs, q, "add")}
        created == DOMAIN files \ DOMAIN fs_files
    IN  [f \in DOMAIN history \cup deleted \cup created
                 \cup {procs[q].filepath : q \in added} |->
            IF f \in deleted
            THEN [state |-> "deleted", stored |-> FALSE, payload |-> <<>>]
            ELSE IF f \in created
            THEN [state |-> IF Past(f).state = "deleted"
                            THEN "readded" ELSE Past(f).state,
                  stored |-> FALSE, payload |-> <<>>]
            ELSE IF \E q \in added : procs[q].filepath = f
            THEN LET q == CHOOSE q \in added : procs[q].filepath = f
                 IN  [Past(f) EXCEPT !.stored = TRUE,
                                     !.payload = procs[q].image_file]
            ELSE Past(f)]

Settle(files, nodes, procs) ==
    /\ fs_files' = files
    /\ proc' = procs
    /\ inodes' = Collect(nodes, files, procs)
    /\ history' = Record(files, procs)

NewInode == CHOOSE i \in 1..(Cardinality(DOMAIN inodes) + 1) : i \notin DOMAIN inodes

\* file.write(buf) at the handle's offset; a gap reads as zero bytes
RECURSIVE Zeros(_)
Zeros(n) == IF n <= 0 THEN <<>> ELSE <<0>> \o Zeros(n - 1)

\* every write lands at the start of the file: the mutant of WriteAt
WriteAt_NoOffset(data, offset, buf) == buf \o Drop(data, Len(buf))

WriteAt(data, offset, buf) ==
    Take(data, offset) \o Zeros(offset - Len(data)) \o buf
        \o Drop(data, offset + Len(buf))

\* file.read(size) at an offset
ReadAt(data, offset, size) ==
    SubSeq(data, offset + 1,
           IF offset + size < Len(data) THEN offset + size ELSE Len(data))

(***************************************************************************)
(* Location URIs (StoreLocation)                                           *)
(***************************************************************************)
\* 'file://%s' % filepath
GetUri(path) == <<"file", ":", "/", "/">> \o path

\* parse_uri: the scheme is dropped, netloc and path are joined and stripped
ParseUri(uri) ==
    LET path == Strip(Drop(uri, 4))
    IN  IF Len(uri) < 4 \/ uri[1] \notin {"file", "filesystem"}
           \/ SubSeq(uri, 2, 4) # <<":", "/", "/">>
        THEN [status |-> "AssertionError", path |-> <<>>]
        ELSE IF path = <<>> THEN [status |-> "BadStoreUri", path |-> <<>>]
        ELSE [status |-> "ok", path |-> path]

\* _resolve_location on a parsed location
ResolveLocation(path) ==
    IF ~Exists(path) \/ path \notin DOMAIN fs_files
    THEN [status |-> "NotFound", filepath |-> path, filesize |-> 0]
    ELSE [status |-> "ok", filepath |-> path,
          filesize |-> Len(inodes[fs_files[path]].data)]

(***************************************************************************)
(* add                                                                     *)
(***************************************************************************)
IOErrnos == {"ENOSPC", "EFBIG", "EACCES", "ENOTDIR"}

\* what can go wrong in one pass of the copy loop: an IOError of the write
\* or the read, or any other exception of the read
CopyOutcomes == {"ok"} \cup IOErrnos \cup {"AttributeError"}

\* the stream caller p sends: n bytes that tell their writer and position
Stream(p, n) == [i \in 1..n |-> 10 * p + i]

\* the contents of the metadata file, and a mapping it may hold
MetadataFiles ==
    {"unset", "missing", "unreadable", "bad_json", "bad_shape", "valid"}

NoMetadata == [k \in {} |-> ""]

ValidMetadata == [k \in {"mountpoint"} |-> "m"]

\* what the try block of _get_metadata raises: open fails on a missing or
\* unreadable file, json.load on text that is not JSON, and
\* check_location_metadata on JSON of the wrong shape
LoadMetadata(metadata_file) ==
    CASE metadata_file \in {"missing", "unreadable"} -> "IOError"
      [] metadata_file = "bad_json" -> "ValueError"
      [] metadata_file = "bad_shape" -> "BackendException"
      [] OTHER -> "none"

\* only the first two except clauses: the mutant of Absorbs
Absorbs_Named(exc) == exc \in {"BackendException", "IOError"}

\* the except clauses: BackendException, IOError, and Exception
Absorbs(exc) ==
    exc \in {"BackendException", "IOError"} \/ exc \in {"ValueError"}

\* _get_metadata
GetMetadata(metadata_file) ==
    IF metadata_file = "unset"
    THEN [raised |-> "none", metadata |-> NoMetadata]
    ELSE LET exc == LoadMetadata(metadata_file)
         IN  IF exc = "none"
             THEN [raised |-> "none", metadata |-> ValidMetadata]
             ELSE IF Absorbs(exc)
             THEN [raised |-> "none", metadata |-> NoMetadata]
             ELSE [raised |-> exc, metadata |-> NoMetadata]

\* exceptions.get(e.errno, e), and the bare re-raise of the second handler
Translate(err) ==
    CASE err \in {"EFBIG", "ENOSPC"} -> "StorageFull"
      [] err = "EACCES" -> "StorageWriteDenied"
      [] OTHER -> err

\* cleanup only when the disk is full: the mutant of CleansUp
CleansUp_SpaceOnly(err) == err \in {"ENOSPC", "EFBIG"}

\* "e.errno != errno.EACCES" in the IOError handler; the second handler
\* always cleans up
CleansUp(err) == err # "EACCES"

\* the error of os.unlink escapes: the mutant of DeletePartial
DeletePartial_Raises(unlinked) == [raised |-> ~unlinked]

\* _delete_partial: whatever os.unlink raises is logged, nothing is raised
DeletePartial(unlinked) == [raised |-> FALSE]

\* hashlib.md5() and checksum.update(buf): a digest that is fed the bytes one
\* after the other (a polynomial over the bytes stands for MD5)
NewMd5 == 1

\* the digest starts again with every chunk: the mutant of Md5Update
RECURSIVE Md5Update_Restart(_, _)
Md5Update_Restart(h, buf) ==
    IF buf = <<>> THEN NewMd5
    ELSE (Md5Update_Restart(h, Take(buf, Len(buf) - 1)) * 31 + buf[Len(buf)])
             % 1009

RECURSIVE Md5Update(_, _)
Md5Update(h, buf) ==
    IF buf = <<>> THEN h
    ELSE Md5Update((h * 31 + Head(buf)) % 1009, Tail(buf))

\* the result of an add call; the stream is kept with a success only
AddResult(image_id, image_file, image_size, filepath, status) ==
    [pc |-> "done", op |-> "add", image_id |-> image_id,
     image_file |-> image_file, image_size |-> image_size,
     filepath |-> filepath, status |-> status,
     err |-> "none", unlink |-> "none", bytes_written |-> 0, writes |-> 0,
     checksum |-> NewMd5, location |-> <<>>, metadata |-> NoMetadata,
     metadata_file |-> "unset", raced |-> FALSE]

\* both except clauses: clean up, then raise
AddFails(p, err, unlink_ok) ==
    LET pr == proc[p]
        unlinked == CleansUp(err) /\ unlink_ok
                        /\ pr.filepath \in DOMAIN fs_files
        files == IF unlinked THEN Unlink(fs_files, pr.filepath) ELSE fs_files
        result == [AddResult(pr.image_id, <<>>, pr.image_size, pr.filepath,
                             IF DeletePartial(unlinked).raised
                             THEN "OSError" ELSE Translate(err))
                     EXCEPT !.err = err,
                            !.unlink = IF ~CleansUp(err) THEN "none"
                                       ELSE IF unlinked THEN "ok"
                                       ELSE "failed"]
    IN  Settle(files, inodes, [proc EXCEPT ![p] = result])

\* add up to the existence check
AddCheck(p, image_id, n, image_size) ==
    /\ proc[p].pc = "idle"
    /\ LET choice == FindBestDatadir(self, image_size)
           filepath == JoinPath(choice.best_datadir, image_id)
       IN  proc' = [proc EXCEPT ![p] =
               IF choice.status # "ok"
               THEN AddResult(image_id, <<>>, image_size, <<>>, choice.status)
               ELSE IF Exists(filepath)
               THEN AddResult(image_id, <<>>, image_size, filepath,
                              "Duplicate")
               ELSE [pc |-> "open", op |-> "add", image_id |-> image_id,
                     image_file |-> Stream(p, n), image_size |-> image_size,
                     datadir |-> choice.best_datadir, filepath |-> filepath]]
    /\ UNCHANGED <<filesystem_store_datadir, self, conf_result, beaten, fs_dirs,
                   fs_files, inodes, total_size, probe_broken, chosen,
                   configure_calls,
                   history>>

\* open(filepath, 'wb'): creates the file, or truncates the one that exists
OpenForWriting(files, nodes, path) ==
    IF path \in DOMAIN files
    THEN [files |-> files, inode |-> files[path],
          nodes |-> [nodes EXCEPT ![files[path]].data = <<>>,
                                  ![files[path]].opens = @ + 1]]
    ELSE [files |-> [f \in DOMAIN files \cup {path} |->
                        IF f = path THEN NewInode ELSE files[f]],
          inode |-> NewInode,
          nodes |-> [i \in DOMAIN nodes \cup {NewInode} |->
                        IF i = NewInode
                        THEN [data |-> <<>>, complete |-> FALSE, opens |-> 1]
                        ELSE nodes[i]]]

AddOpen(p, outcome, unlink_ok) ==
    /\ proc[p].pc = "open"
    /\ UNCHANGED <<filesystem_store_datadir, self, conf_result, beaten, fs_dirs,
                   total_size, probe_broken, chosen, configure_calls>>
    /\ LET pr == proc[p]
       IN  IF pr.datadir \notin fs_dirs THEN AddFails(p, "ENOENT", unlink_ok)
           ELSE IF outcome # "ok" THEN AddFails(p, outcome, unlink_ok)
           ELSE LET opened == OpenForWriting(fs_files, inodes, pr.filepath)
                IN  Settle(opened.files, opened.nodes,
                           [proc EXCEPT ![p] =
                               [pc |-> "write", op |-> "add",
                                image_id |-> pr.image_id,
                                image_file |-> pr.image_file,
                                image_size |-> pr.image_size,
                                datadir |-> pr.datadir,
                                filepath |-> pr.filepath,
                                inode |-> opened.inode,
                                bytes_written |-> 0, writes |-> 0,
                                checksum |-> NewMd5]])

\* the copy loop goes on until the declared size is reached: the mutant of
\* Exhausted
Exhausted_AtDeclared(pr) ==
    \/ pr.bytes_written >= pr.image_size
    \/ pr.bytes_written = Len(pr.image_file)

\* "for buf in utils.chunkreadable(image_file, CHUNKSIZE)" ends when the
\* stream yields nothing more
Exhausted(pr) == pr.bytes_written = Len(pr.image_file)

\* one pass of the copy loop: read a chunk of at most CHUNKSIZE bytes (a read
\* may return fewer than it was asked for), count it, digest it, write it
AddWrite(p, size, outcome, unlink_ok) ==
    /\ proc[p].pc = "write"
    /\ proc[p].op = "add"
    /\ ~Exhausted(proc[p])
    /\ UNCHANGED <<filesystem_store_datadir, self, conf_result, beaten, fs_dirs,
                   total_size, probe_broken, chosen, configure_calls>>
    /\ LET pr == proc[p]
           buf == ReadAt(pr.image_file, pr.bytes_written, size)
       IN  IF outcome # "ok" THEN AddFails(p, outcome, unlink_ok)
           ELSE Settle(fs_files,
                       [inodes EXCEPT ![pr.inode].data =
                           WriteAt(@, pr.bytes_written, buf)],
                       [proc EXCEPT ![p].bytes_written = @ + Len(buf),
                                    ![p].writes = @ + 1,
                                    ![p].checksum = Md5Update(@, buf)])

\* the read that finds the stream exhausted, the close, _get_metadata and
\* the return
AddFinish(p, outcome, unlink_ok, metadata_file) ==
    /\ proc[p].pc = "write"
    /\ proc[p].op = "add"
    /\ Exhausted(proc[p])
    /\ UNCHANGED <<filesystem_store_datadir, self, conf_result, beaten, fs_dirs,
                   total_size, probe_broken, chosen, configure_calls>>
    /\ LET pr == proc[p]
       IN  IF outcome # "ok" THEN AddFails(p, outcome, unlink_ok)
           ELSE Settle(fs_files,
                       [inodes EXCEPT ![pr.inode].complete = TRUE],
                       [proc EXCEPT ![p] =
                           [AddResult(pr.image_id, pr.image_file,
                                      pr.image_size, pr.filepath,
                                      IF GetMetadata(metadata_file).raised
                                             = "none"
                                      THEN "ok"
                                      ELSE GetMetadata(metadata_file).raised)
                              EXCEPT !.bytes_written = pr.bytes_written,
                                     !.writes = pr.writes,
                                     !.checksum = pr.checksum,
                                     !.location = GetUri(pr.filepath),
                                     !.metadata =
                                         GetMetadata(metadata_file).metadata,
                                     !.metadata_file = metadata_file,
                                     !.raced = inodes[pr.inode].opens > 1]])

(***************************************************************************)
(* get, get_size, delete                                                   *)
(***************************************************************************)
\* the result of a get, get_size or delete call
CallResult(op, filepath, status) ==
    [pc |-> "done", op |-> op, filepath |-> filepath, status |-> status,
     filesize |-> 0, chunks |-> <<>>, fp |-> "none"]

\* get: resolve the location and open a ChunkedFile on it; the iteration
\* over it has not started
Get(p, location) ==
    /\ proc[p].pc = "idle"
    /\ UNCHANGED <<filesystem_store_datadir, self, conf_result, beaten, fs_dirs,
                   total_size, probe_broken, chosen, configure_calls>>
    /\ LET found == ResolveLocation(ParseUri(location).path)
       IN  IF found.status # "ok"
           THEN Settle(fs_files, inodes,
                       [proc EXCEPT ![p] =
                           CallResult("get", found.filepath, found.status)])
           ELSE Settle(fs_files, inodes,
                       [proc EXCEPT ![p] =
                           [pc |-> "reading", op |-> "get",
                            filepath |-> found.filepath,
                            inode |-> fs_files[found.filepath],
                            filesize |-> found.filesize,
                            offset |-> 0, chunks |-> <<>>,
                            started |-> FALSE]])

\* ChunkedFile.__iter__: one read. An empty chunk ends the loop, an IOError
\* of the read leaves it; the finally clause closes the file either way
ReadOutcomes == {"ok", "EIO"}

ReadChunk(p, outcome) ==
    /\ proc[p].pc = "reading"
    /\ UNCHANGED <<filesystem_store_datadir, self, conf_result, beaten, fs_dirs,
                   total_size, probe_broken, chosen, configure_calls>>
    /\ LET pr == proc[p]
           chunk == ReadAt(inodes[pr.inode].data, pr.offset, CHUNKSIZE)
           ended(status) == [CallResult("get", pr.filepath, status)
                               EXCEPT !.filesize = pr.filesize,
                                      !.chunks = pr.chunks,
                                      !.fp = "closed"]
       IN  IF outcome # "ok"
           THEN Settle(fs_files, inodes, [proc EXCEPT ![p] = ended("IOError")])
           ELSE IF chunk # <<>>
           THEN Settle(fs_files, inodes,
                       [proc EXCEPT ![p].offset = @ + Len(chunk),
                                    ![p].chunks = Append(@, chunk),
                                    ![p].started = TRUE])
           ELSE Settle(fs_files, inodes, [proc EXCEPT ![p] = ended("ok")])

\* the caller stops consuming the chunks. It may call ChunkedFile.close
\* ("close"), let go of the object ("drop": the runtime closes a generator
\* that is suspended at its yield, which runs the finally clause, and
\* finalises the file object of an iteration that never started), or keep
\* the object without calling anything ("keep"): no statement of
\* ChunkedFile runs then, and the file stays open
Abandonments == {"close", "drop", "keep"}

Abandon(p, how) ==
    /\ proc[p].pc = "reading"
    /\ UNCHANGED <<filesystem_store_datadir, self, conf_result, beaten, fs_dirs,
                   total_size, probe_broken, chosen, configure_calls>>
    /\ LET pr == proc[p]
       IN  Settle(fs_files, inodes,
                  [proc EXCEPT ![p] =
                      [CallResult("get", pr.filepath, "abandoned")
                         EXCEPT !.filesize = pr.filesize,
                                !.chunks = pr.chunks,
                                !.fp = IF how = "keep"
                                       THEN "open" ELSE "closed"]])

GetSize(p, location) ==
    /\ proc[p].pc = "idle"
    /\ UNCHANGED <<filesystem_store_datadir, self, conf_result, beaten, fs_dirs,
                   fs_files, inodes, total_size, probe_broken, chosen,
                   configure_calls,
                   history>>
    /\ LET found == ResolveLocation(ParseUri(location).path)
       IN  proc' = [proc EXCEPT ![p] =
                       [CallResult("get_size", found.filepath, found.status)
                          EXCEPT !.filesize = found.filesize]]

\* an OSError of os.unlink is swallowed: the mutant of DeleteOutcome
DeleteOutcome_Quiet(exists, unlinked) ==
    IF ~exists THEN "NotFound" ELSE "ok"

\* how delete ends: NotFound from the else branch, Forbidden from the except
\* clause
DeleteOutcome(exists, unlinked) ==
    IF ~exists THEN "NotFound"
    ELSE IF unlinked THEN "ok"
    ELSE "Forbidden"

\* delete up to the existence check
DeleteCheck(p, location) ==
    /\ proc[p].pc = "idle"
    /\ UNCHANGED <<filesystem_store_datadir, self, conf_result, beaten, fs_dirs,
                   fs_files, inodes, total_size, probe_broken, chosen,
                   configure_calls,
                   history>>
    /\ LET fn == ParseUri(location).path
       IN  proc' = [proc EXCEPT ![p] =
                       IF Exists(fn)
                       THEN [pc |-> "unlink", op |-> "delete", filepath |-> fn]
                       ELSE CallResult("delete", fn,
                                       DeleteOutcome(FALSE, FALSE))]

\* os.unlink(fn); an OSError becomes Forbidden
DeleteUnlink(p, unlink_ok) ==
    /\ proc[p].pc = "unlink"
    /\ UNCHANGED <<filesystem_store_datadir, self, conf_result, beaten, fs_dirs,
                   total_size, probe_broken, chosen, configure_calls>>
    /\ LET fn == proc[p].filepath
           unlinked == unlink_ok /\ fn \in DOMAIN fs_files
       IN  Settle(IF unlinked THEN Unlink(fs_files, fn) ELSE fs_files, inodes,
                  [proc EXCEPT ![p] =
                      CallResult("delete", fn, DeleteOutcome(TRUE, unlinked))])

\* the caller takes the result and is free for the next call
Return(p) ==
    /\ proc[p].pc = "done"
    /\ proc' = [proc EXCEPT ![p] = [pc |-> "idle"]]
    /\ UNCHANGED <<filesystem_store_datadir, self, conf_result, beaten, fs_dirs,
                   fs_files, inodes, total_size, probe_broken, chosen,
                   configure_calls,
                   history>>

(***************************************************************************)
(* Inputs                                                                  *)
(***************************************************************************)
\* entries of a datadir list: "a", "b:2", "a : 1", "a:x", "b:-1", "", " ",
\* "b:"
ConfEntries ==
    { <<"a">>, <<"b", ":", "2">>, <<"a", " ", ":", " ", "1">>,
      <<"a", ":", "x">>, <<"b", ":", "-", "1">>, <<>>, <<" ">>,
      <<"b", ":">> }

\* the entry lists of at most n entries
RECURSIVE ListsUpTo(_, _)
ListsUpTo(S, n) ==
    IF n = 0 THEN {<<>>}
    ELSE LET shorter == ListsUpTo(S, n - 1)
         IN  shorter \cup {Append(l, e) : l \in shorter, e \in S}

IdleProc == [pc |-> "idle"]

\* a Store on which configure_add has not run
InitConf ==
    /\ filesystem_store_datadir = <<>>
    /\ self = [n \in {} |-> 0]
    /\ conf_result = "none"
    /\ beaten = {}
    /\ fs_dirs \in SUBSET {<<"a">>}
    /\ fs_files = [f \in {} |-> 0]
    /\ inodes = [i \in {} |-> 0]
    /\ total_size = [d \in {} |-> 0]
    /\ probe_broken = {}
    /\ chosen = [status |-> "none"]
    /\ proc = [p \in {1} |-> IdleProc]
    /\ configure_calls = 0
    /\ history = [f \in {} |-> 0]

(***************************************************************************)
(* Configuration alone: configure_add on every entry list                  *)
(***************************************************************************)
NextConf ==
    \E conf \in ListsUpTo(ConfEntries, MaxEntries) :
        ConfigureAdd(conf, MakedirsOutcomes)

SpecConf == InitConf /\ [][NextConf]_vars

(***************************************************************************)
(* Placement alone: configure, then _find_best_datadir for every size on   *)
(* every assignment of file system sizes                                   *)
(***************************************************************************)
PlaceDirs == {<<"a">>, <<"b">>, <<"c">>}

\* ["a"], ["a", "b"], ["a:1", "b"], ["a:2", "b:2", "c:1"], ["c:2", "b:1", "a"],
\* ["a:x", "b"]
PlaceConfs ==
    { << <<"a">> >>,
      << <<"a">>, <<"b">> >>,
      << <<"a", ":", "1">>, <<"b">> >>,
      << <<"a", ":", "2">>, <<"b", ":", "2">>, <<"c", ":", "1">> >>,
      << <<"c", ":", "2">>, <<"b", ":", "1">>, <<"a">> >>,
      << <<"a", ":", "x">>, <<"b">> >> }

InitChoose ==
    /\ filesystem_store_datadir = <<>>
    /\ self = [n \in {} |-> 0]
    /\ conf_result = "none"
    /\ beaten = {}
    /\ fs_dirs = {}
    /\ fs_files = [f \in {} |-> 0]
    /\ inodes = [i \in {} |-> 0]
    /\ total_size \in [PlaceDirs -> 0..MaxFree]
    /\ probe_broken \in {{}} \cup {{d} : d \in PlaceDirs}
    /\ chosen = [status |-> "none"]
    /\ proc = [p \in {1} |-> IdleProc]
    /\ configure_calls = 0
    /\ history = [f \in {} |-> 0]

NextChoose ==
    \/ \E conf \in PlaceConfs : chosen.status = "none" /\ ConfigureAdd(conf, LoneOutcomes)
    \/ \E image_size \in ImageSizes : Choose(image_size)

SpecChoose == InitChoose /\ [][NextChoose]_vars

(***************************************************************************)
(* The store in use: two callers, each in one call at a time               *)
(***************************************************************************)
MainDirs == {<<"a">>, <<"b">>}

Ids == {<<"x">>}

\* ["a"], ["a", "b"], ["a:1", "b"]
MainConfs ==
    { << <<"a">> >>,
      << <<"a">>, <<"b">> >>,
      << <<"a", ":", "1">>, <<"b">> >> }

Locations == {GetUri(JoinPath(d, id)) : d \in MainDirs, id \in Ids}

\* a Store on which configure_add has not run, and the callers that use it
Fresh(callers, sizes) ==
    /\ filesystem_store_datadir = <<>>
    /\ self = [n \in {} |-> 0]
    /\ conf_result = "none"
    /\ beaten = {}
    /\ fs_dirs = {}
    /\ fs_files = [f \in {} |-> 0]
    /\ inodes = [i \in {} |-> 0]
    /\ total_size \in [MainDirs -> sizes]
    /\ probe_broken = {}
    /\ chosen = [status |-> "none"]
    /\ proc = [p \in callers |-> IdleProc]
    /\ configure_calls = 0
    /\ history = [f \in {} |-> 0]

\* configuration precedes use
Unused == Idle /\ DOMAIN fs_files = {}

\* the calls of the callers, on the inputs and failures of inp
Calls(inp) ==
    \E p \in DOMAIN proc :
        \/ \E image_id \in Ids, n \in inp.lengths,
              image_size \in inp.image_sizes :
              AddCheck(p, image_id, n, image_size)
        \/ \E outcome \in inp.open_outcomes, unlink_ok \in BOOLEAN :
              AddOpen(p, outcome, unlink_ok)
        \/ \E size \in inp.chunk_sizes, outcome \in inp.copy_outcomes,
              unlink_ok \in BOOLEAN :
              AddWrite(p, size, outcome, unlink_ok)
        \/ \E outcome \in inp.copy_outcomes, unlink_ok \in BOOLEAN,
              metadata_file \in inp.metadata_files :
              AddFinish(p, outcome, unlink_ok, metadata_file)
        \/ \E location \in inp.locations :
              \/ Get(p, location)
              \/ GetSize(p, location)
              \/ DeleteCheck(p, location)
        \/ \E outcome \in inp.read_outcomes : ReadChunk(p, outcome)
        \/ \E how \in inp.abandonments : Abandon(p, how)
        \/ \E unlink_ok \in BOOLEAN : DeleteUnlink(p, unlink_ok)
        \/ Return(p)

\* one caller, every input and every failure
MainInputs ==
    [lengths |-> 0..MaxLen, chunk_sizes |-> 1..CHUNKSIZE,
     image_sizes |-> ImageSizes,
     open_outcomes |-> {"ok"} \cup IOErrnos, copy_outcomes |-> CopyOutcomes,
     metadata_files |-> MetadataFiles, locations |-> Locations,
     read_outcomes |-> ReadOutcomes, abandonments |-> Abandonments]

Init == Fresh({1}, {0, MaxFree})

Next ==
    \/ \E conf \in MainConfs : Unused /\ ConfigureAdd(conf, LoneOutcomes)
    \/ Calls(MainInputs)

Spec == Init /\ [][Next]_vars

\* two callers whose calls interleave on one object: the file systems never
\* fill up and the directory of the higher priority takes every add
Roomy == MaxFree + 2 * MaxLen

RaceInputs ==
    [lengths |-> {1, MaxLen}, chunk_sizes |-> {CHUNKSIZE},
     image_sizes |-> {0},
     open_outcomes |-> {"ok", "ENOSPC"}, copy_outcomes |-> {"ok", "ENOSPC"},
     metadata_files |-> {"unset"},
     locations |-> {GetUri(JoinPath(<<"a">>, id)) : id \in Ids},
     read_outcomes |-> {"ok"}, abandonments |-> {"drop"}]

InitRace == Fresh({1, 2}, {Roomy})

NextRace ==
    \/ Unused /\ ConfigureAdd(<< <<"a", ":", "1">>, <<"b">> >>, LoneOutcomes)
    \/ Calls(RaceInputs)

SpecRace == InitRace /\ [][NextRace]_vars

(***************************************************************************)
(* Object store claims                                                     *)
(***************************************************************************)
IsAdd(pr) == pr.pc = "done" /\ pr.op = "add"

\* an object for the id is present: an add completed on a file of that name
\* in a datadir and the file is still there
Present(image_id) ==
    \E d \in fs_dirs :
        /\ JoinPath(d, image_id) \in DOMAIN fs_files
        /\ inodes[fs_files[JoinPath(d, image_id)]].complete

\* the call that caller p enters in this step
Enters(p, ops) ==
    proc[p].pc = "idle" /\ proc'[p].pc # "idle" /\ proc'[p].op \in ops

\* C1: an add on an id whose object is present ends with Duplicate, in every
\* configuration, for every stream and every declared size.
C1_DuplicateRejected ==
    [][\A p \in DOMAIN proc :
          (Enters(p, {"add"}) /\ Present(proc'[p].image_id))
              => (proc'[p].pc = "done" /\ proc'[p].status = "Duplicate")]_vars

\* C2: a get or get_size on the location an add is writing to reports
\* NotFound as long as that add has not completed.
C2_PartialInvisible ==
    [][\A q \in DOMAIN proc :
          (/\ Enters(q, {"get", "get_size"})
           /\ \E p \in DOMAIN proc :
                 /\ proc[p].pc = "write"
                 /\ proc[p].filepath = proc'[q].filepath
                 /\ ~inodes[proc[p].inode].complete)
              => (proc'[q].pc = "done" /\ proc'[q].status = "NotFound")]_vars

\* C3: of two add calls that both passed the existence check on one path and
\* opened the same file, at most one returns success.
C3_OneWinner ==
    \A p, q \in DOMAIN proc :
        (p # q /\ IsAdd(proc[p]) /\ IsAdd(proc[q])
             /\ proc[p].filepath = proc[q].filepath)
            => ~(/\ proc[p].status = "ok" /\ proc[p].raced
                 /\ proc[q].status = "ok" /\ proc[q].raced)

\* an add that failed after the existence check, with the condition err
WriteFailed(pr) == IsAdd(pr) /\ pr.err # "none"

C5_ErrorTranslation ==
    \A p \in DOMAIN proc :
        WriteFailed(proc[p]) =>
            /\ proc[p].err \in {"ENOSPC", "EFBIG"}
                  => proc[p].status = "StorageFull"
            /\ proc[p].err = "EACCES" => proc[p].status = "StorageWriteDenied"
            /\ proc[p].err \notin {"ENOSPC", "EFBIG", "EACCES"}
                  => proc[p].status = proc[p].err

\* C5 witness: the file was too large, the cleanup unlink failed, and add
\* raised StorageFull
C5_Witness ==
    \E p \in DOMAIN proc :
        /\ WriteFailed(proc[p])
        /\ proc[p].err = "EFBIG"
        /\ proc[p].unlink = "failed"
        /\ proc[p].status = "StorageFull"

\* the concatenation of a sequence of chunks
RECURSIVE Concat(_)
Concat(chunks) ==
    IF chunks = <<>> THEN <<>> ELSE Head(chunks) \o Concat(Tail(chunks))

\* the data of the file a path names
DataAt(path) == inodes[fs_files[path]].data

\* C6: a successful add leaves, at the path its location parses to, a file
\* holding exactly the stream, and returns the stream's length as
\* bytes_written; a get yields chunks whose concatenation is the file's
\* data, and get and get_size report its length.
C6_RoundTrip ==
    \A p \in DOMAIN proc :
        /\ (IsAdd(proc[p]) /\ proc[p].status = "ok") =>
              LET parsed == ParseUri(proc[p].location)
              IN  /\ parsed.status = "ok"
                  /\ parsed.path \in DOMAIN fs_files
                  /\ DataAt(parsed.path) = proc[p].image_file
                  /\ proc[p].bytes_written = Len(proc[p].image_file)
        /\ (proc[p].pc = "done" /\ proc[p].op \in {"get", "get_size"}
                /\ proc[p].status = "ok") =>
              /\ proc[p].filepath \in DOMAIN fs_files
              /\ proc[p].filesize = Len(DataAt(proc[p].filepath))
              /\ proc[p].op = "get" =>
                    Concat(proc[p].chunks) = DataAt(proc[p].filepath)

\* C6 witness: a get has returned, in two chunks, the longest stream an add
\* stored
C6_Witness ==
    \E p \in DOMAIN proc :
        /\ proc[p].pc = "done" /\ proc[p].op = "get" /\ proc[p].status = "ok"
        /\ Len(proc[p].chunks) = 2
        /\ Concat(proc[p].chunks) = Stream(p, MaxLen)
        /\ proc[p].filesize = MaxLen

(***************************************************************************)
(* Placement claims                                                        *)
(***************************************************************************)
\* the directories of the priority map, and the priorities of a directory
Configured(obj) ==
    UNION {Range(obj.priority_data_map[p]) : p \in DOMAIN obj.priority_data_map}

PrioritiesOf(obj, dir) ==
    {p \in DOMAIN obj.priority_data_map : dir \in Range(obj.priority_data_map[p])}

\* a call of _find_best_datadir on a store that multi-entry configuration
\* has completed on
MultiChoice ==
    /\ chosen.status # "none"
    /\ conf_result = "ok"
    /\ Len(filesystem_store_datadir) > 1

\* C7: in multi-directory mode _find_best_datadir never returns a directory
\* of priority p while a directory of a higher priority has free space >=
\* the requested size (size 0 included), and it raises StorageFull whenever
\* no configured directory has free space >= the size.
C7_HigherTierFirst ==
    MultiChoice =>
        /\ chosen.status = "ok" =>
              \A d \in Configured(self) :
                 (\E q \in PrioritiesOf(self, d) :
                     \A p \in PrioritiesOf(self, chosen.best_datadir) : q > p)
                 => \/ GetCapacityInfo(d).failed
                    \/ GetCapacityInfo(d).free < chosen.image_size
        /\ (\A d \in Configured(self) :
               /\ ~GetCapacityInfo(d).failed
               /\ GetCapacityInfo(d).free < chosen.image_size)
           => chosen.status = "StorageFull"

\* C8: with exactly one configured directory _find_best_datadir returns that
\* directory for every size, probes nothing and never raises StorageFull.
C8_SingleDirAlwaysChosen ==
    (chosen.status # "none" /\ Len(filesystem_store_datadir) = 1) =>
        /\ chosen.status = "ok"
        /\ chosen.best_datadir = filesystem_store_datadir[1]
        /\ chosen.probed = <<>>

\* C8 witness: the single directory is returned for a size larger than the
\* file system that holds it
C8_Witness ==
    /\ chosen.status = "ok"
    /\ filesystem_store_datadir = << <<"a">> >>
    /\ chosen.best_datadir = <<"a">>
    /\ chosen.image_size > total_size[<<"a">>]

(***************************************************************************)
(* Configuration claims                                                    *)
(***************************************************************************)
\* C9: configure_add on a freshly constructed store with exactly one entry
\* completes without error (short of a directory that cannot be created) and
\* leaves the store in single-path mode holding that entry, with no priority
\* map involved.
C9_SingleEntryConfigures ==
    (configure_calls = 1 /\ Len(filesystem_store_datadir) = 1) =>
        /\ \/ conf_result = "ok"
           \/ /\ conf_result = "BadStoreConfiguration"
              /\ filesystem_store_datadir[1] \notin fs_dirs
        /\ self.multiple_datadirs = FALSE
        /\ self.datadir = filesystem_store_datadir[1]
        /\ ~HasAttr(self, "priority_data_map")

\* C10: configure_add on an empty entry list raises BadStoreConfiguration
\* and has changed nothing by then: no directory is created, no file is
\* written, no attribute of the store is set.
C10_EmptyListRejected ==
    [][(configure_calls' # configure_calls /\ filesystem_store_datadir' = <<>>)
          => /\ conf_result' = "BadStoreConfiguration"
             /\ fs_dirs' = fs_dirs
             /\ fs_files' = fs_files
             /\ inodes' = inodes
             /\ self' = self]_vars

\* C10 witness: an empty list was rejected on a store that an earlier call
\* had configured
C10_Witness ==
    /\ configure_calls = 2
    /\ filesystem_store_datadir = <<>>
    /\ conf_result = "BadStoreConfiguration"
    /\ HasAttr(self, "priority_list")

\* an entry "path:priority" whose priority is given and is not a non-negative
\* integer
BadPriority(entry) ==
    LET parts == Split(entry, ":")
    IN  /\ Len(parts) = 2
        /\ Strip(parts[2]) # <<>>
        /\ \E i \in 1..Len(Strip(parts[2])) : Strip(parts[2])[i] \notin Digits

\* C11: configure_add on a list of several entries, one of which has a
\* priority that is given and is not a non-negative integer, raises
\* BadStoreConfiguration and no other error, and creates no directory.
C11_BadPriorityRejected ==
    [][(/\ configure_calls' # configure_calls
        /\ Len(filesystem_store_datadir') > 1
        /\ \E i \in 1..Len(filesystem_store_datadir') :
              BadPriority(filesystem_store_datadir'[i]))
          => /\ conf_result' = "BadStoreConfiguration"
             /\ fs_dirs' = fs_dirs]_vars

(***************************************************************************)
(* Object lifecycle claims                                                 *)
(***************************************************************************)
\* the path was deleted with success and no add has created it since
Deleted(path) == path \in DOMAIN history /\ history[path].state = "deleted"

\* C12: after a successful delete of a location, and as long as no add
\* creates the file again, every get, get_size and delete on that location
\* ends with NotFound.
C12_DeletedStaysGone ==
    [][\A p \in DOMAIN proc :
          (Enters(p, {"get", "get_size", "delete"})
               /\ Deleted(proc'[p].filepath))
              => (proc'[p].pc = "done" /\ proc'[p].status = "NotFound")]_vars

\* C12 witness: a get on a deleted location has ended with NotFound
C12_Witness ==
    \E p \in DOMAIN proc :
        /\ proc[p].pc = "done" /\ proc[p].op = "get"
        /\ proc[p].status = "NotFound"
        /\ Deleted(proc[p].filepath)

\* C13: once the caller of a successful get no longer consumes the chunks
\* (they are exhausted, a read raised, or the caller gave up before or after
\* the first chunk), the file that get opened is closed.
C13_HandleReleased ==
    \A p \in DOMAIN proc :
        (proc[p].pc = "done" /\ proc[p].op = "get"
             /\ proc[p].status \in {"ok", "IOError", "abandoned"})
            => proc[p].fp = "closed"

(***************************************************************************)
(* Claims on what add returns                                              *)
(***************************************************************************)
\* an add that has copied the whole stream without an error
Copied(pr) ==
    /\ IsAdd(pr)
    /\ pr.err = "none"
    /\ pr.filepath # <<>>
    /\ pr.status # "Duplicate"

\* C14: an add whose write succeeded returns success whatever the metadata
\* file is, and the written file is there; when the file is unset, missing,
\* unreadable, not JSON or of the wrong shape the metadata returned is the
\* empty mapping, and when it is valid its mapping is returned.
C14_MetadataAbsorbed ==
    \A p \in DOMAIN proc :
        Copied(proc[p]) =>
            /\ proc[p].status = "ok"
            /\ proc[p].filepath \in DOMAIN fs_files
            /\ proc[p].metadata = IF proc[p].metadata_file = "valid"
                                  THEN ValidMetadata ELSE NoMetadata

\* C14 witness: an add has returned success and the empty mapping with a
\* metadata file that is not JSON
C14_Witness ==
    \E p \in DOMAIN proc :
        /\ Copied(proc[p])
        /\ proc[p].metadata_file = "bad_json"
        /\ proc[p].status = "ok"
        /\ proc[p].metadata = NoMetadata
        /\ proc[p].bytes_written = MaxLen

\* C15: a delete on a location at which nothing exists ends with NotFound
\* and changes nothing; a delete on a file that is there either removes that
\* file and nothing else, or, when the unlink fails, ends with Forbidden and
\* leaves every file in place.
C15_DeleteOutcomes ==
    [][\A p \in DOMAIN proc :
          /\ Enters(p, {"delete"}) =>
                IF proc'[p].filepath \in DOMAIN fs_files
                THEN proc'[p].pc = "unlink"
                ELSE /\ proc'[p].pc = "done"
                     /\ proc'[p].status = "NotFound"
                     /\ fs_files' = fs_files
                     /\ inodes' = inodes
                     /\ fs_dirs' = fs_dirs
          /\ (proc[p].pc = "unlink" /\ proc'[p].pc = "done") =>
                \/ /\ proc'[p].status = "ok"
                   /\ proc[p].filepath \in DOMAIN fs_files
                   /\ DOMAIN fs_files' = DOMAIN fs_files \ {proc[p].filepath}
                   /\ \A f \in DOMAIN fs_files' : fs_files'[f] = fs_files[f]
                \/ /\ proc'[p].status = "Forbidden"
                   /\ fs_files' = fs_files]_vars

\* C15 witness: a delete has ended with Forbidden and the file is in place
C15_Witness ==
    \E p \in DOMAIN proc :
        /\ proc[p].pc = "done" /\ proc[p].op = "delete"
        /\ proc[p].status = "Forbidden"
        /\ proc[p].filepath \in DOMAIN fs_files
        /\ inodes[fs_files[proc[p].filepath]].complete

\* the path was deleted, an add has created it again and an add has
\* succeeded on it since
Readded(path) ==
    /\ path \in DOMAIN history
    /\ history[path].state = "readded"
    /\ history[path].stored

\* C16: after a successful add and a successful delete of its location, the
\* next add of the id to that directory is not rejected as Duplicate, and
\* once it has succeeded a get returns the stream of this add, not what the
\* path held before the delete.
C16_IdReusable ==
    /\ [][\A p \in DOMAIN proc :
             (Enters(p, {"add"}) /\ Deleted(proc'[p].filepath))
                 => proc'[p].pc = "open"]_vars
    /\ [](\A p \in DOMAIN proc :
             (proc[p].pc = "done" /\ proc[p].op = "get"
                  /\ proc[p].status = "ok" /\ Readded(proc[p].filepath))
                 => Concat(proc[p].chunks) = history[proc[p].filepath].payload)

\* C16 witness: a get has returned, as one chunk, the one byte that the add
\* after the delete stored
C16_Witness ==
    \E p \in DOMAIN proc :
        /\ proc[p].pc = "done" /\ proc[p].op = "get" /\ proc[p].status = "ok"
        /\ Readded(proc[p].filepath)
        /\ Len(proc[p].chunks) = 1
        /\ proc[p].filesize = 1
        /\ Concat(proc[p].chunks) = Stream(p, 1)

\* C17: the checksum a successful add returns is the digest of the bytes of
\* the file it wrote, in their order, whatever the sizes of the chunks the
\* stream came in, and bytes_written is the number of those bytes.
C17_ChecksumOfWritten ==
    \A p \in DOMAIN proc :
        (IsAdd(proc[p]) /\ proc[p].status = "ok") =>
            /\ proc[p].filepath \in DOMAIN fs_files
            /\ proc[p].checksum = Md5Update(NewMd5, DataAt(proc[p].filepath))
            /\ proc[p].bytes_written = Len(DataAt(proc[p].filepath))

\* C17 witness: the longest stream was stored in one-byte chunks
C17_Witness ==
    \E p \in DOMAIN proc :
        /\ IsAdd(proc[p]) /\ proc[p].status = "ok"
        /\ proc[p].bytes_written = MaxLen
        /\ proc[p].writes = MaxLen
        /\ proc[p].checksum = Md5Update(NewMd5, Stream(p, MaxLen))

\* C18: whatever size was declared, an add for which a directory was chosen
\* writes the whole stream and returns its length; it fails only as
\* Duplicate or for an error of the open, the read or the write.
C18_DeclaredSizeIgnored ==
    \A p \in DOMAIN proc :
        (IsAdd(proc[p]) /\ proc[p].filepath # <<>>) =>
            IF proc[p].status = "ok"
            THEN /\ proc[p].bytes_written = Len(proc[p].image_file)
                 /\ proc[p].filepath \in DOMAIN fs_files
                 /\ DataAt(proc[p].filepath) = proc[p].image_file
            ELSE proc[p].status = "Duplicate" \/ proc[p].err # "none"

\* C18 witness: a stream longer than the declared size and longer than the
\* free space was stored whole
C18_Witness ==
    \E p \in DOMAIN proc :
        /\ IsAdd(proc[p]) /\ proc[p].status = "ok"
        /\ proc[p].image_size = 1
        /\ proc[p].bytes_written = MaxLen
        /\ DataAt(proc[p].filepath) = Stream(p, MaxLen)

(***************************************************************************)
(* Placement claims, continued                                             *)
(***************************************************************************)
\* the free space _get_capacity_info reports for a directory
Free(d) == GetCapacityInfo(d).free

\* C19: in multi-directory mode _find_best_datadir raises StorageFull only
\* if every configured directory has less free space than the size asked
\* for; when the probes work and some directory has free space >= the size
\* (size 0 against free space 0 included) it returns a directory.
C19_FullOnlyIfNoneFits ==
    MultiChoice =>
        /\ chosen.status = "StorageFull" =>
              \A d \in Configured(self) : Free(d) < chosen.image_size
        /\ (/\ \A d \in Configured(self) : ~GetCapacityInfo(d).failed
            /\ \E d \in Configured(self) : Free(d) >= chosen.image_size)
           => chosen.status = "ok"

\* the directories of the priority of the directory returned, in the order
\* of the configured list
TierOfChosen ==
    self.priority_data_map[
        CHOOSE p \in DOMAIN self.priority_data_map :
            chosen.best_datadir \in Range(self.priority_data_map[p])]

\* C20: in multi-directory mode the directory _find_best_datadir returns
\* has the most free space among the directories of its priority that have
\* free space >= the size, and is the first of the configured list among
\* those that have that much.
C20_MostFreeFirstListed ==
    (MultiChoice /\ chosen.status = "ok") =>
        LET tier == TierOfChosen
            fits == {i \in 1..Len(tier) : Free(tier[i]) >= chosen.image_size}
        IN  \E i \in fits :
               /\ tier[i] = chosen.best_datadir
               /\ \A j \in fits : Free(tier[j]) <= Free(tier[i])
               /\ \A j \in fits : Free(tier[j]) = Free(tier[i]) => i <= j

\* C20 witness: of two directories of one priority with the same free space
\* the first listed is returned
C20_Witness ==
    /\ MultiChoice
    /\ chosen.status = "ok"
    /\ filesystem_store_datadir = << <<"a">>, <<"b">> >>
    /\ Free(<<"a">>) = MaxFree /\ Free(<<"b">>) = MaxFree
    /\ chosen.image_size = MaxFree
    /\ chosen.best_datadir = <<"a">>

\* the stat or du command fails on the directory
ProbeFails(d) ==
    d \notin fs_dirs \/ d \in probe_broken \/ d \notin DOMAIN total_size

\* a store in multi-directory mode on which _find_best_datadir can run
MultiMode ==
    /\ HasAttr(self, "multiple_datadirs")
    /\ self.multiple_datadirs
    /\ HasAttr(self, "priority_list")

\* C21: when the probe of a directory that _find_best_datadir examines
\* fails, the call ends with the error of the probe: the directory is not
\* passed over as if it had no free space, no directory is examined after
\* it, and the add that made the call ends with that error and creates no
\* file.
C21_ProbeErrorPropagates ==
    /\ [](MultiMode =>
             \A image_size \in ImageSizes :
                LET r == FindBestDatadir(self, image_size)
                IN  \A i \in 1..Len(r.probed) :
                       ProbeFails(r.probed[i]) =>
                           /\ r.status = "ProbeError"
                           /\ i = Len(r.probed))
    /\ [][\A p \in DOMAIN proc :
             (/\ Enters(p, {"add"})
              /\ MultiMode
              /\ \E i \in 1..Len(FindBestDatadir(self,
                                       proc'[p].image_size).probed) :
                    ProbeFails(FindBestDatadir(self,
                                   proc'[p].image_size).probed[i]))
                 => /\ proc'[p].pc = "done"
                    /\ proc'[p].status = "ProbeError"
                    /\ fs_files' = fs_files
                    /\ inodes' = inodes]_vars

\* C21 witness: an add has ended with the error of the probe of the
\* directory of the lower priority, after the directory of the higher
\* priority was found too small
C21_Witness ==
    \E p \in DOMAIN proc :
        /\ IsAdd(proc[p])
        /\ proc[p].status = "ProbeError"
        /\ filesystem_store_datadir = << <<"a", ":", "1">>, <<"b">> >>
        /\ ~ProbeFails(<<"a">>)
        /\ ProbeFails(<<"b">>)
        /\ DOMAIN fs_files = {}

(***************************************************************************)
(* Configuration claims, continued                                         *)
(***************************************************************************)
\* the directories a configured store places images in
Placement(obj) ==
    IF ~obj.multiple_datadirs THEN {obj.datadir} ELSE Configured(obj)

\* an entry that is empty or made of blanks
Blank(entry) == Strip(entry) = <<>>

\* C22: a configure_add that completes without error leaves at least one
\* directory to place images in, and an entry list that is not empty but
\* holds blank entries only is not accepted.  (Rejection is stated as "not
\* ok": which error a single entry raises on a store that was never
\* configured is the subject of C9.)
C22_SomeDirectoryConfigured ==
    /\ conf_result = "ok" => Placement(self) # {}
    /\ (/\ configure_calls > 0
        /\ filesystem_store_datadir # <<>>
        /\ \A i \in 1..Len(filesystem_store_datadir) :
               Blank(filesystem_store_datadir[i]))
       => conf_result # "ok"

\* the set configure_add hands to _create_image_directories
DirectoryPaths(conf) ==
    IF SingleEntry(conf) THEN {conf[1]}
    ELSE ParseEntries(conf, EmptyMap, {}).paths

\* C23: in a configure_add that reaches the creation of directories, a
\* directory that exists already stays, only configured paths appear, a
\* path whose creation failed because another process created it first
\* was missing before and exists afterwards without ending the
\* configuration, and the call ends with BadStoreConfiguration exactly
\* when some configured path does not exist afterwards; otherwise it
\* succeeds with every configured path in place.
C23_CreationRaceTolerated ==
    [][(/\ configure_calls' = configure_calls + 1
        /\ filesystem_store_datadir' # <<>>
        /\ conf_result' \in {"ok", "BadStoreConfiguration"})
       => LET paths == DirectoryPaths(filesystem_store_datadir')
          IN  /\ fs_dirs \subseteq fs_dirs'
              /\ fs_dirs' \ fs_dirs \subseteq paths
              /\ beaten' \subseteq (paths \cap fs_dirs') \ fs_dirs
              /\ conf_result' = "ok" <=> paths \subseteq fs_dirs'
      ]_vars

\* a configuration of two paths succeeded although the creation of one of
\* them lost the race
C23_Witness ==
    /\ conf_result = "ok"
    /\ beaten # {}
    /\ \E d \in DirectoryPaths(filesystem_store_datadir) : d \notin beaten
    /\ DirectoryPaths(filesystem_store_datadir) \subseteq fs_dirs

(***************************************************************************)
(* Object store claims, continued                                          *)
(***************************************************************************)
\* caller p takes a step of an add call
AddStep(p) ==
    proc'[p] # proc[p] /\ proc'[p].pc # "idle" /\ proc'[p].op = "add"

\* the files an add has completed on, with what they hold
Objects ==
    [f \in {g \in DOMAIN fs_files : inodes[fs_files[g]].complete} |->
        DataAt(f)]

\* C24: an add that ends with Duplicate found its target path in place and
\* changes no file; no step of an add of the one caller truncates,
\* rewrites or unlinks a file an add has completed on; and a get that
\* succeeds on a path returns the stream of the add that stored it.
C24_DuplicateLeavesObject ==
    /\ [][\A p \in DOMAIN proc :
             /\ (Enters(p, {"add"}) /\ proc'[p].pc = "done"
                     /\ proc'[p].status = "Duplicate")
                    => /\ Exists(proc'[p].filepath)
                       /\ fs_files' = fs_files
                       /\ inodes' = inodes
             /\ AddStep(p)
                    => \A f \in DOMAIN Objects :
                           /\ f \in DOMAIN fs_files'
                           /\ fs_files'[f] = fs_files[f]
                           /\ inodes'[fs_files[f]] = inodes[fs_files[f]]]_vars
    /\ [](\A p \in DOMAIN proc :
             (proc[p].pc = "done" /\ proc[p].op = "get"
                  /\ proc[p].status = "ok"
                  /\ proc[p].filepath \in DOMAIN history
                  /\ history[proc[p].filepath].stored)
                 => Concat(proc[p].chunks) = history[proc[p].filepath].payload)

\* C24 witness: an add has ended with Duplicate on a path that holds the
\* whole, non-empty stream of the add that stored it
C24_Witness ==
    \E p \in DOMAIN proc :
        /\ IsAdd(proc[p]) /\ proc[p].status = "Duplicate"
        /\ proc[p].filepath \in DOMAIN Objects
        /\ proc[p].filepath \in DOMAIN history
        /\ history[proc[p].filepath].stored
        /\ Objects[proc[p].filepath] = history[proc[p].filepath].payload
        /\ Len(Objects[proc[p].filepath]) = MaxLen

\* caller p ends an add in failure in this step
AddFailsNow(p) ==
    proc[p].pc # "done" /\ WriteFailed(proc'[p])

\* C25: a step in which an add fails leaves every file that an add has
\* completed on where it is, with the data it has.
C25_FailureSparesObjects ==
    [][\A p \in DOMAIN proc :
          AddFailsNow(p)
              => \A f \in DOMAIN Objects :
                     /\ f \in DOMAIN fs_files'
                     /\ fs_files'[f] = fs_files[f]
                     /\ inodes'[fs_files[f]].data = Objects[f]]_vars

\* the configured directories that hold a file for the id on which an add
\* has completed
Holders(image_id) ==
    {d \in Configured(self) : JoinPath(d, image_id) \in DOMAIN Objects}

\* C26: in multi-directory mode no id has a file in two configured
\* directories at once (stated for the files an add has completed on, the
\* ones a get can return).
C26_OneDirectoryPerId ==
    (conf_result = "ok" /\ MultiMode)
        => \A image_id \in Ids : Cardinality(Holders(image_id)) <= 1

\* the delete of another caller has removed the file caller p is about to
\* unlink
Overtaken(p) ==
    /\ proc[p].pc = "unlink"
    /\ proc[p].filepath \notin DOMAIN fs_files
    /\ \E q \in DOMAIN proc \ {p} :
           /\ proc[q].pc = "done" /\ proc[q].op = "delete"
           /\ proc[q].status = "ok"
           /\ proc[q].filepath = proc[p].filepath

\* C27: of two deletes that both passed the existence check on a stored
\* object, the one that comes to unlink after the other has removed the
\* file ends with NotFound, not with Forbidden.
C27_LateDeleteNotFound ==
    [][\A p \in DOMAIN proc :
          (Overtaken(p) /\ proc'[p].pc = "done")
              => proc'[p].status = "NotFound"]_vars

====
